---- MODULE Spec2Model ----
(***************************************************************************)
(* Sandboxed code runners of DeepBlue: run_cpp_code (cpp_runner.py),       *)
(* run_go_code (go_runner.py) and run_python_code (python_runner.py).      *)
(* One call of one runner is modelled from entry to completion.  The       *)
(* environment (file system, docker CLI, child processes) chooses the      *)
(* outcome of every external operation.                                    *)
(*                                                                         *)
(* Text is a sequence of atoms (strings): "" is <<>>, concatenation is \o. *)
(* An optional value is None (<<>>) or Some(v) (<<v>>).                    *)
(***************************************************************************)
EXTENDS Integers, Sequences, FiniteSets, TLC

VARIABLES
    runner,       \* which runner is called: "cpp", "go" or "python"
    args,         \* the arguments of the call
    pc,           \* the position of the call in the runner's code
    result,       \* the result dictionary (results in cpp_runner.py)
    temp_dir,     \* the local temp_dir: None or Some(name)
    dir_exists,   \* os.path.exists(temp_dir)
    image_built,  \* the local image_built of the Go and Python runners
    images,       \* the image tags that exist in the docker backend
    calls,        \* history: the docker invocations made, in order
    fs_ops,       \* history: the file system operations made, in order
    log,          \* the warnings printed by the cleanup code
    pending,      \* how the try block was left: "none", "return" or "raise"
    outcome       \* how the call completed: "running", "returned", "raised"

vars == <<runner, args, pc, result, temp_dir, dir_exists, image_built,
          images, calls, fs_ops, log, pending, outcome>>

----------------------------------------------------------------------------
(* Bounds of the model *)

\* child processes exit with a code in 0..MaxExitCode
MaxExitCode == 2
\* time limits passed by the caller are 1..MaxTimeout seconds
MaxTimeout == 2

----------------------------------------------------------------------------
(* Values *)

None == <<>>
Some(v) == <<v>>

\* the text of a number inside an f-string
Str(n) == ToString(n)

\* a byte sequence that is not valid UTF-8
BadByte == "\\xff"

IsWhitespace(a) == a \in {"\n", " "}

\* str.lstrip(): drops the leading whitespace
RECURSIVE lstrip(_)
lstrip(t) == IF t # <<>> /\ IsWhitespace(Head(t)) THEN lstrip(Tail(t)) ELSE t

\* bytes.decode(errors='ignore'): drops what is not valid UTF-8
decode_ignore(b) == SelectSeq(b, LAMBDA a : a # BadByte)

\* `x in text` for an atom x
Contains(t, a) == \E i \in 1..Len(t) : t[i] = a

\* `s in text` for a text s
ContainsText(t, s) ==
    \E i \in 0..(Len(t) - Len(s)) : \A j \in 1..Len(s) : t[i + j] = s[j]

----------------------------------------------------------------------------
(* The environment: what one subprocess.run of a docker command can do *)

Outs == {<<>>, <<"out">>}
Errs == {<<>>, <<"err">>, <<" ", "err">>}
PartialOuts == {<<>>, <<"out">>, <<"out", BadByte>>}
PartialErrs == {<<>>, <<"err">>}

\* cause: why a completed process exited non-zero: the user's own program
\* (it does not compile, it crashes) or the backend (daemon down, no image...)
\* container: what the container the docker daemon started for the command
\* is doing when subprocess.run has ended: the child of subprocess.run is
\* the docker client, and the container is a process of the daemon
Completed ==
    [kind : {"completed"}, returncode : {0}, stdout : Outs, stderr : Errs,
     cause : {"none"}, etype : {"-"}, what : {"-"}, container : {"exited"}]
    \cup
    [kind : {"completed"}, returncode : 1..MaxExitCode, stdout : Outs,
     stderr : Errs, cause : {"user_code", "backend"}, etype : {"-"},
     what : {"-"}, container : {"exited"}]

\* subprocess.run kills its child, the docker client, when the timeout
\* expires; the command lines give the container no name and the runners
\* make no docker stop or docker kill, so the container is stopped by
\* nobody and runs on unless the program in it has ended by itself
TimeoutExpired ==
    [kind : {"TimeoutExpired"}, returncode : {0}, stdout : PartialOuts,
     stderr : PartialErrs, cause : {"none"}, etype : {"TimeoutExpired"},
     what : {"-"}, container : {"exited", "running"}]

\* the docker executable is not on PATH; what is e.filename
FileNotFound ==
    [kind : {"FileNotFoundError"}, returncode : {0}, stdout : {<<>>},
     stderr : {<<>>}, cause : {"backend"}, etype : {"FileNotFoundError"},
     what : {"docker"}, container : {"none"}]

\* any other exception of subprocess.run; etype is type(e).__name__ and
\* what is str(e)
OtherException ==
    [kind : {"Exception"}, returncode : {0}, stdout : {<<>>},
     stderr : {<<>>}, cause : {"backend"}, etype : {"PermissionError"},
     what : {"Permission denied"}, container : {"none"}]

ProcOutcome == Completed \cup TimeoutExpired \cup FileNotFound \cup OtherException

\* the messages of the exceptions of tempfile.mkdtemp and open/write
FsErrors == {"No space left on device"}

Compilers == {"g++", "clang++", "gcc"}
StdinData == {None, Some(<<"in">>)}
\* the source text given to the runner: empty or not
Codes == {<<>>, <<"int main() {}">>}
Timeouts == 1..MaxTimeout


----------------------------------------------------------------------------
(* How a call ends *)

\* the call completes the way its try block was left
Completion(p) == IF p = "raise" THEN "raised" ELSE "returned"

RmtreeOp(ok) == [op |-> "rmtree", ok |-> ok]

----------------------------------------------------------------------------
(* cpp_runner.py: run_cpp_code *)

DOCKER_IMAGE == "ubuntu:22.04"

\* mutant: the results dictionary starts with the default compiler
InitialCppResultsDefaultCompiler ==
    [compilation_stdout |-> <<>>,
     compilation_stderr |-> <<>>,
     compilation_exit_code |-> None,
     timed_out_compilation |-> FALSE,
     execution_stdout |-> None,
     execution_stderr |-> None,
     execution_exit_code |-> None,
     timed_out_execution |-> FALSE,
     compiler_used |-> "g++"]

\* the results dictionary at entry
InitialCppResults ==
    [compilation_stdout |-> <<>>,
     compilation_stderr |-> <<>>,
     compilation_exit_code |-> None,
     timed_out_compilation |-> FALSE,
     execution_stdout |-> None,
     execution_stderr |-> None,
     execution_exit_code |-> None,
     timed_out_execution |-> FALSE,
     compiler_used |-> "none"]

\* mutant: every compiler whose name ends like a C compiler is accepted
SupportedCompilerLax(compiler) == compiler \in {"g++", "clang++", "gcc"}

SupportedCompiler(compiler) == compiler \in {"g++", "clang++"}

UnsupportedCompilerResults(res, compiler) ==
    [res EXCEPT
       !.compilation_stderr =
           <<"Unsupported compiler: '", compiler,
             "'. Supported compilers are 'g++' and 'clang++'.">>,
       !.compilation_exit_code = Some(-100)]

\* 1. Compiler Validation
CppValidate ==
    /\ runner = "cpp" /\ pc = "validate"
    /\ IF ~SupportedCompiler(args.compiler)
       THEN /\ result' = UnsupportedCompilerResults(result, args.compiler)
            /\ pc' = "done"
            /\ outcome' = "returned"
       ELSE /\ result' = [result EXCEPT !.compiler_used = args.compiler]
            /\ pc' = "mkdtemp"
            /\ UNCHANGED outcome
    /\ UNCHANGED <<runner, args, temp_dir, dir_exists, image_built, images,
                   calls, fs_ops, log, pending>>

\* temp_dir = tempfile.mkdtemp(); an exception leaves the try block
CppMkdtemp ==
    /\ runner = "cpp" /\ pc = "mkdtemp"
    /\ \E ok \in BOOLEAN :
         /\ fs_ops' = Append(fs_ops, [op |-> "mkdtemp", ok |-> ok])
         /\ IF ok
            THEN /\ temp_dir' = Some(<<"tmp", "u1">>)
                 /\ dir_exists' = TRUE
                 /\ pc' = "write"
                 /\ UNCHANGED pending
            ELSE /\ pending' = "raise"
                 /\ pc' = "cleanup"
                 /\ UNCHANGED <<temp_dir, dir_exists>>
    /\ UNCHANGED <<runner, args, result, image_built, images, calls, log,
                   outcome>>

\* with open(cpp_filepath, "w") as f: f.write(cpp_code)
CppWrite ==
    /\ runner = "cpp" /\ pc = "write"
    /\ \E ok \in BOOLEAN :
         /\ fs_ops' = Append(fs_ops, [op |-> "write", ok |-> ok])
         /\ IF ok
            THEN pc' = "compile" /\ UNCHANGED pending
            ELSE pc' = "cleanup" /\ pending' = "raise"
    /\ UNCHANGED <<runner, args, result, temp_dir, dir_exists, image_built,
                   images, calls, log, outcome>>

\* mutant: the containers of run_cpp_code are started without --network=none
CppCallDefaultNetwork(cmd, interactive, input, timeout, o) ==
    [cmd |-> cmd, network |-> "default", interactive |-> interactive,
     cpus |-> "-", memory |-> "-", image |-> <<DOCKER_IMAGE>>,
     input |-> input, timeout |-> timeout, outcome |-> o]

\* a docker invocation of run_cpp_code, as recorded in calls
CppCall(cmd, interactive, input, timeout, o) ==
    [cmd |-> cmd, network |-> "none", interactive |-> interactive,
     cpus |-> "-", memory |-> "-", image |-> <<DOCKER_IMAGE>>,
     input |-> input, timeout |-> timeout, outcome |-> o]

\* the try/except around the compile subprocess.run
CompileResults(res, o, compile_timeout) ==
    CASE o.kind = "completed" ->
           [res EXCEPT !.compilation_stdout = o.stdout,
                       !.compilation_stderr = o.stderr,
                       !.compilation_exit_code = Some(o.returncode)]
      [] o.kind = "TimeoutExpired" ->
           [res EXCEPT !.timed_out_compilation = TRUE,
                       !.compilation_stderr =
                           <<"Compilation timed out after ",
                             Str(compile_timeout), " seconds.">>,
                       !.compilation_exit_code = Some(-1)]
      [] o.kind = "FileNotFoundError" ->
           [res EXCEPT !.compilation_stderr =
                           <<"Error: Docker command not found. Please ensure Docker is installed and in PATH.">>,
                       !.compilation_exit_code = Some(-1)]
      [] OTHER ->
           [res EXCEPT !.compilation_stderr = <<o.etype, " - ", o.what>>,
                       !.compilation_exit_code = Some(-1)]

\* mutant: only a compile timeout skips the execution
CompilationFailedTimeoutOnly(res) == res.timed_out_compilation

\* if results["compilation_exit_code"] != 0 or results["timed_out_compilation"]
CompilationFailed(res) ==
    res.compilation_exit_code # Some(0) \/ res.timed_out_compilation

\* 4. Compilation Phase
CppCompile ==
    /\ runner = "cpp" /\ pc = "compile"
    /\ \E o \in ProcOutcome :
         LET res == CompileResults(result, o, args.compile_timeout) IN
         /\ calls' = Append(calls,
                CppCall("compile", FALSE, None, args.compile_timeout, o))
         /\ result' = res
         /\ IF o.kind \in {"FileNotFoundError", "Exception"}
               \/ CompilationFailed(res)
            THEN pc' = "cleanup" /\ pending' = "return"
            ELSE pc' = "execute" /\ UNCHANGED pending
    /\ UNCHANGED <<runner, args, temp_dir, dir_exists, image_built, images,
                   fs_ops, log, outcome>>

\* input_bytes = stdin_data.encode('utf-8') if stdin_data is not None else None
InputBytes(stdin_data) ==
    IF stdin_data # None
    THEN Some([type |-> "bytes", data |-> stdin_data[1]])
    ELSE None

\* subprocess.run(execute_command, input=input_bytes, ..., text=True): once
\* the child is spawned, communicate() encodes the input of a text-mode pipe,
\* which a bytes object does not have
RunWithInput(o, input) ==
    IF o.kind # "FileNotFoundError" /\ input # None /\ input[1].type = "bytes"
    THEN [kind |-> "Exception", returncode |-> 0, stdout |-> <<>>,
          stderr |-> <<>>, cause |-> "backend", etype |-> "AttributeError",
          what |-> "'bytes' object has no attribute 'encode'",
          container |-> o.container]
    ELSE o

\* mutant: an execution timeout leaves execution_exit_code unset
ExecuteResultsTimeoutUnset(res, o, exec_timeout) ==
    CASE o.kind = "completed" ->
           [res EXCEPT !.execution_stdout = Some(o.stdout),
                       !.execution_stderr = Some(o.stderr),
                       !.execution_exit_code = Some(o.returncode)]
      [] o.kind = "TimeoutExpired" ->
           [res EXCEPT !.timed_out_execution = TRUE,
                       !.execution_stderr =
                           Some(<<"Execution timed out after ",
                                  Str(exec_timeout), " seconds.">>)]
      [] o.kind = "FileNotFoundError" ->
           [res EXCEPT !.execution_stderr =
                           Some(<<"Error: Docker command not found for execution (unexpected).">>),
                       !.execution_exit_code = Some(-1)]
      [] OTHER ->
           [res EXCEPT !.execution_stderr = Some(<<o.etype, " - ", o.what>>),
                       !.execution_exit_code = Some(-1)]

\* the try/except around the execute subprocess.run
ExecuteResults(res, o, exec_timeout) ==
    CASE o.kind = "completed" ->
           [res EXCEPT !.execution_stdout = Some(o.stdout),
                       !.execution_stderr = Some(o.stderr),
                       !.execution_exit_code = Some(o.returncode)]
      [] o.kind = "TimeoutExpired" ->
           [res EXCEPT !.timed_out_execution = TRUE,
                       !.execution_stderr =
                           Some(<<"Execution timed out after ",
                                  Str(exec_timeout), " seconds.">>),
                       !.execution_exit_code = Some(-1)]
      [] o.kind = "FileNotFoundError" ->
           [res EXCEPT !.execution_stderr =
                           Some(<<"Error: Docker command not found for execution (unexpected).">>),
                       !.execution_exit_code = Some(-1)]
      [] OTHER ->
           [res EXCEPT !.execution_stderr = Some(<<o.etype, " - ", o.what>>),
                       !.execution_exit_code = Some(-1)]

\* 5. Execution Phase (if compilation succeeded)
CppExecute ==
    /\ runner = "cpp" /\ pc = "execute"
    /\ \E o \in ProcOutcome :
         LET input_bytes == InputBytes(args.stdin_data)
             e == RunWithInput(o, input_bytes) IN
         /\ calls' = Append(calls,
                CppCall("execute", TRUE, input_bytes, args.exec_timeout, e))
         /\ result' = ExecuteResults(result, e, args.exec_timeout)
    /\ pc' = "cleanup"
    /\ pending' = "return"
    /\ UNCHANGED <<runner, args, temp_dir, dir_exists, image_built, images,
                   fs_ops, log, outcome>>

\* if temp_dir and os.path.exists(temp_dir):
CppTempDirToRemove == temp_dir # None /\ dir_exists

\* finally: ... shutil.rmtree(temp_dir)
\* an exception of rmtree replaces the pending return or exception
CppCleanup ==
    /\ runner = "cpp" /\ pc = "cleanup"
    /\ IF CppTempDirToRemove
       THEN \E ok \in BOOLEAN :
              /\ fs_ops' = Append(fs_ops, RmtreeOp(ok))
              /\ dir_exists' = ~ok
              /\ outcome' = IF ok THEN Completion(pending) ELSE "raised"
       ELSE /\ outcome' = Completion(pending)
            /\ UNCHANGED <<fs_ops, dir_exists>>
    /\ pc' = "done"
    /\ UNCHANGED <<runner, args, result, temp_dir, image_built, images,
                   calls, log, pending>>


----------------------------------------------------------------------------
(* go_runner.py: _execute_command_for_go, run_go_code                      *)
(* python_runner.py: _execute_command, run_python_code                     *)
(* The two runners differ in their messages and names only; r is "go" or   *)
(* "python".                                                               *)

\* what the process executor returns: the CompletedProcess and timed_out
ExecReturn(returncode, stdout, stderr, timed_out) ==
    [returncode |-> returncode, stdout |-> stdout, stderr |-> stderr,
     timed_out |-> timed_out]

\* mutant: a missing executable is reported like any other exception, by
\* str(e) instead of e.filename
execute_command_for_go_no_filename(o) ==
    CASE o.kind = "completed" ->
           ExecReturn(o.returncode, o.stdout, o.stderr, FALSE)
      [] o.kind = "TimeoutExpired" ->
           ExecReturn(-1,
               IF o.stdout # <<>> THEN decode_ignore(o.stdout) ELSE <<>>,
               IF o.stderr # <<>> THEN decode_ignore(o.stderr)
                                  ELSE <<"Execution timed out.">>,
               TRUE)
      [] OTHER ->
           ExecReturn(-1, <<>>,
               <<"An unexpected error occurred running command: ",
                 "[Errno 2] No such file or directory">>,
               FALSE)

\* _execute_command_for_go(command_args, timeout_seconds)
execute_command_for_go(o) ==
    CASE o.kind = "completed" ->
           ExecReturn(o.returncode, o.stdout, o.stderr, FALSE)
      [] o.kind = "TimeoutExpired" ->
           ExecReturn(-1,
               IF o.stdout # <<>> THEN decode_ignore(o.stdout) ELSE <<>>,
               IF o.stderr # <<>> THEN decode_ignore(o.stderr)
                                  ELSE <<"Execution timed out.">>,
               TRUE)
      [] o.kind = "FileNotFoundError" ->
           ExecReturn(-1, <<>>, <<"Command not found: ", o.what>>, FALSE)
      [] OTHER ->
           ExecReturn(-1, <<>>,
               <<"An unexpected error occurred running command: ", o.what>>,
               FALSE)

\* _execute_command(command_args, timeout_seconds) of python_runner.py
execute_command(o) ==
    CASE o.kind = "completed" ->
           ExecReturn(o.returncode, o.stdout, o.stderr, FALSE)
      [] o.kind = "TimeoutExpired" ->
           ExecReturn(-1,
               IF o.stdout # <<>> THEN decode_ignore(o.stdout) ELSE <<>>,
               IF o.stderr # <<>> THEN decode_ignore(o.stderr)
                                  ELSE <<"Execution timed out.">>,
               TRUE)
      [] o.kind = "FileNotFoundError" ->
           ExecReturn(-1, <<>>, <<"Command not found: ", o.what>>, FALSE)
      [] OTHER ->
           ExecReturn(-1, <<>>,
               <<"An unexpected error occurred running command: ", o.what>>,
               FALSE)

Execute(r, o) ==
    IF r = "go" THEN execute_command_for_go(o) ELSE execute_command(o)

\* mutant: the exit code defaults to success
InitialResultZero ==
    [stdout |-> <<>>, stderr |-> <<>>, exit_code |-> 0,
     timed_out |-> FALSE, error |-> None]

\* the result dictionary at entry
InitialResult ==
    [stdout |-> <<>>, stderr |-> <<>>, exit_code |-> -1,
     timed_out |-> FALSE, error |-> None]

\* exec_id = str(uuid.uuid4())
exec_id == "u1"

\* mutant: the image tag does not carry the execution's id
ImageTagShared(r, id) ==
    IF r = "go" THEN <<"go-exec-">> ELSE <<"python-exec-">>

\* f"go-exec-{exec_id}" / f"python-exec-{exec_id}", for the exec_id given
ImageTag(r, id) ==
    IF r = "go" THEN <<"go-exec-", id>> ELSE <<"python-exec-", id>>

\* docker_image_tag = f"go-exec-{exec_id}" / f"python-exec-{exec_id}"
docker_image_tag(r) == ImageTag(r, exec_id)

\* prefix=f"gorunner_{exec_id}_" / f"pyrunner_{exec_id}_", for the exec_id
\* given; run_cpp_code calls tempfile.mkdtemp() with the default prefix
TempDirPrefix(r, id) ==
    CASE r = "go"     -> <<"gorunner_", id, "_">>
      [] r = "python" -> <<"pyrunner_", id, "_">>
      [] OTHER        -> <<"tmp">>

\* tempfile.mkdtemp(prefix=f"gorunner_{exec_id}_") / f"pyrunner_{exec_id}_"
TempDirName(r) == TempDirPrefix(r, exec_id)

BuildTimedOutError(r) ==
    IF r = "go" THEN <<"Docker image build for Go timed out.">>
                ELSE <<"Docker image build timed out.">>

BuildFailedError(r) ==
    IF r = "go" THEN <<"Docker image build for Go failed.">>
                ELSE <<"Docker image build failed.">>

UnexpectedErrorPrefix(r) ==
    IF r = "go" THEN "An unexpected error occurred in run_go_code: "
                ELSE "An unexpected error occurred in run_python_code: "

\* except Exception as e: of the runner
HandleException(r, res, e) ==
    [res EXCEPT !.error = Some(<<UnexpectedErrorPrefix(r), e>>),
                !.stderr = IF res.stderr = <<>> THEN <<e>> ELSE res.stderr]

\* a docker invocation of the Go and Python runners, as recorded in calls
ImgCall(cmd, network, cpus, memory, image, timeout, o, ret) ==
    [cmd |-> cmd, network |-> network, interactive |-> FALSE,
     cpus |-> cpus, memory |-> memory, image |-> image, input |-> None,
     timeout |-> timeout, outcome |-> o, ret |-> ret]

\* temp_dir = tempfile.mkdtemp(prefix=...)
ImgMkdtemp(r) ==
    /\ pc = "mkdtemp"
    /\ \E ok \in BOOLEAN :
         /\ fs_ops' = Append(fs_ops, [op |-> "mkdtemp", ok |-> ok])
         /\ IF ok
            THEN /\ temp_dir' = Some(TempDirName(r))
                 /\ dir_exists' = TRUE
                 /\ pc' = "write"
                 /\ UNCHANGED result
            ELSE /\ \E e \in FsErrors : result' = HandleException(r, result, e)
                 /\ pc' = "finally_image"
                 /\ UNCHANGED <<temp_dir, dir_exists>>
    /\ UNCHANGED <<runner, args, image_built, images, calls, log, pending,
                   outcome>>

\* writing main.go / main.py (and requirements.txt) and the Dockerfile
ImgWrite(r) ==
    /\ pc = "write"
    /\ \E ok \in BOOLEAN :
         /\ fs_ops' = Append(fs_ops, [op |-> "write", ok |-> ok])
         /\ IF ok
            THEN pc' = "build" /\ UNCHANGED result
            ELSE /\ \E e \in FsErrors : result' = HandleException(r, result, e)
                 /\ pc' = "finally_image"
    /\ UNCHANGED <<runner, args, temp_dir, dir_exists, image_built, images,
                   calls, log, pending, outcome>>

\* mutant: a build timeout is reported through error and stderr only
BuildTimedOutResultNoFlag(r, res, ret) ==
    [res EXCEPT !.error = Some(BuildTimedOutError(r)),
                !.stderr = ret.stderr]

\* if build_timed_out: ...
BuildTimedOutResult(r, res, ret) ==
    [res EXCEPT !.error = Some(BuildTimedOutError(r)),
                !.stderr = ret.stderr,
                !.timed_out = TRUE]

\* mutant: a failed build is reported through exit_code and stderr only
BuildFailedResultNoError(r, res, ret) ==
    [res EXCEPT !.stderr = <<"Build STDOUT:\n">> \o ret.stdout
                           \o <<"\n\nBuild STDERR:\n">> \o ret.stderr,
                !.exit_code = ret.returncode]

\* mutant: the output on stdout of a failed build is dropped
BuildFailedResultStderrOnly(r, res, ret) ==
    [res EXCEPT !.error = Some(BuildFailedError(r)),
                !.stderr = <<"Build STDERR:\n">> \o ret.stderr,
                !.exit_code = ret.returncode]

\* if build_process_result.returncode != 0: ...
BuildFailedResult(r, res, ret) ==
    [res EXCEPT !.error = Some(BuildFailedError(r)),
                !.stderr = <<"Build STDOUT:\n">> \o ret.stdout
                           \o <<"\n\nBuild STDERR:\n">> \o ret.stderr,
                !.exit_code = ret.returncode]

\* mutant: only a build timeout skips the run
BuildFailedTimeoutOnly(ret) == ret.timed_out

\* the build did not produce a usable image: the run is skipped
BuildFailed(ret) == ret.timed_out \/ ret.returncode # 0

\* 1. Build the Docker image
ImgBuild(r) ==
    /\ pc = "build"
    /\ \E o \in ProcOutcome :
         LET ret == Execute(r, o) IN
         /\ calls' = Append(calls,
                ImgCall("build", "default", "-", "-", docker_image_tag(r),
                        300, o, ret))
         /\ IF BuildFailed(ret)
            THEN /\ result' = IF ret.timed_out
                              THEN BuildTimedOutResult(r, result, ret)
                              ELSE BuildFailedResult(r, result, ret)
                 /\ pc' = "finally_image"
                 /\ UNCHANGED <<image_built, images>>
            ELSE /\ image_built' = TRUE
                 /\ images' = images \cup {docker_image_tag(r)}
                 /\ pc' = "run"
                 /\ UNCHANGED result
    /\ UNCHANGED <<runner, args, temp_dir, dir_exists, fs_ops, log, pending,
                   outcome>>

\* mutant: the exit code of a timed-out run is left as the executor set it
NormalizeExitCodeKeep(exit_code) == exit_code

\* mutant: a timed-out run is reported with exit code 0
NormalizeExitCodeZero(exit_code) == 0

\* if result['exit_code'] == 0 or result['exit_code'] == -1:
\*     result['exit_code'] = 137
NormalizeExitCode(exit_code) ==
    IF exit_code = 0 \/ exit_code = -1 THEN 137 ELSE exit_code

\* mutant: the exit code is normalized whether or not the run timed out
RunResultAlwaysNormalized(res, ret, timeout) ==
    LET r1 == [res EXCEPT !.timed_out = ret.timed_out,
                          !.stdout = ret.stdout,
                          !.stderr = ret.stderr,
                          !.exit_code = NormalizeExitCode(ret.returncode)]
    IN IF ret.timed_out
       THEN [r1 EXCEPT
               !.stderr = lstrip(r1.stderr \o
                   <<"\n", "Execution timed out after ", Str(timeout),
                     " seconds.">>)]
       ELSE r1

\* the result after the run invocation returned
RunResult(res, ret, timeout) ==
    LET r1 == [res EXCEPT !.timed_out = ret.timed_out,
                          !.stdout = ret.stdout,
                          !.stderr = ret.stderr,
                          !.exit_code = ret.returncode]
    IN IF ret.timed_out
       THEN [r1 EXCEPT
               !.stderr = lstrip(r1.stderr \o
                   <<"\n", "Execution timed out after ", Str(timeout),
                     " seconds.">>),
               !.exit_code = NormalizeExitCode(r1.exit_code)]
       ELSE r1

\* 2. Run the Docker container
ImgRun(r) ==
    /\ pc = "run"
    /\ \E o \in ProcOutcome :
         LET ret == Execute(r, o) IN
         /\ calls' = Append(calls,
                ImgCall("run", "none", args.cpu_limit, args.memory_limit,
                        docker_image_tag(r), args.timeout, o, ret))
         /\ result' = RunResult(result, ret, args.timeout)
    /\ pc' = "finally_image"
    /\ UNCHANGED <<runner, args, temp_dir, dir_exists, image_built, images,
                   fs_ops, log, pending, outcome>>

ImageWarning == "Warning: Failed to remove Docker image"
TempDirWarning == "Warning: Failed to remove temporary directory"

\* mutant: the image is only removed after a clean run
ImageToRemoveAfterCleanRun == image_built /\ result.exit_code = 0

\* if image_built:
ImageToRemove == image_built

\* finally: ... docker rmi -f docker_image_tag
ImgRemoveImage(r) ==
    /\ pc = "finally_image"
    /\ IF ImageToRemove
       THEN \E o \in ProcOutcome :
              LET rmi_result == Execute(r, o) IN
              /\ calls' = Append(calls,
                     ImgCall("rmi", "default", "-", "-", docker_image_tag(r),
                             30, o, rmi_result))
              /\ log' = IF rmi_result.returncode # 0
                        THEN Append(log, ImageWarning) ELSE log
              /\ images' = IF o.kind = "completed" /\ o.returncode = 0
                           THEN images \ {docker_image_tag(r)} ELSE images
       ELSE UNCHANGED <<calls, log, images>>
    /\ pc' = "finally_dir"
    /\ UNCHANGED <<runner, args, result, temp_dir, dir_exists, image_built,
                   fs_ops, pending, outcome>>

\* mutant: the directory is only removed when an image was built
ImgTempDirToRemoveAfterBuild == temp_dir # None /\ dir_exists /\ image_built

\* if temp_dir and os.path.exists(temp_dir):
ImgTempDirToRemove == temp_dir # None /\ dir_exists

\* finally: ... try: shutil.rmtree(temp_dir) except Exception: print warning
\* then return result
ImgRemoveTempDir(r) ==
    /\ pc = "finally_dir"
    /\ IF ImgTempDirToRemove
       THEN \E ok \in BOOLEAN :
              /\ fs_ops' = Append(fs_ops, RmtreeOp(ok))
              /\ dir_exists' = ~ok
              /\ log' = IF ok THEN log ELSE Append(log, TempDirWarning)
       ELSE UNCHANGED <<fs_ops, dir_exists, log>>
    /\ pc' = "done"
    /\ outcome' = "returned"
    /\ UNCHANGED <<runner, args, result, temp_dir, image_built, images,
                   calls, pending>>

GoMkdtemp == runner = "go" /\ ImgMkdtemp("go")
GoWrite == runner = "go" /\ ImgWrite("go")
GoBuild == runner = "go" /\ ImgBuild("go")
GoRun == runner = "go" /\ ImgRun("go")
GoRemoveImage == runner = "go" /\ ImgRemoveImage("go")
GoRemoveTempDir == runner = "go" /\ ImgRemoveTempDir("go")

PyMkdtemp == runner = "python" /\ ImgMkdtemp("python")
PyWrite == runner = "python" /\ ImgWrite("python")
PyBuild == runner = "python" /\ ImgBuild("python")
PyRun == runner = "python" /\ ImgRun("python")
PyRemoveImage == runner = "python" /\ ImgRemoveImage("python")
PyRemoveTempDir == runner = "python" /\ ImgRemoveTempDir("python")

----------------------------------------------------------------------------
(* The calls *)

DEFAULT_CPU_LIMIT == "1.0"
DEFAULT_MEMORY_LIMIT == "256m"

CpuLimits == {DEFAULT_CPU_LIMIT, "0.5"}
MemoryLimits == {DEFAULT_MEMORY_LIMIT}

CppArgs ==
    [compiler : Compilers, stdin_data : StdinData,
     compile_timeout : Timeouts, exec_timeout : Timeouts,
     timeout : {1}, cpu_limit : {"-"}, memory_limit : {"-"},
     code : Codes]

ImgArgs ==
    [compiler : {"-"}, stdin_data : {None},
     compile_timeout : {1}, exec_timeout : {1},
     timeout : Timeouts, cpu_limit : CpuLimits, memory_limit : MemoryLimits,
     code : {<<"main">>}]

Init ==
    /\ runner \in {"cpp", "go", "python"}
    /\ args \in IF runner = "cpp" THEN CppArgs ELSE ImgArgs
    /\ pc = IF runner = "cpp" THEN "validate" ELSE "mkdtemp"
    /\ result = IF runner = "cpp" THEN InitialCppResults ELSE InitialResult
    /\ temp_dir = None
    /\ dir_exists = FALSE
    /\ image_built = FALSE
    /\ images = {}
    /\ calls = <<>>
    /\ fs_ops = <<>>
    /\ log = <<>>
    /\ pending = "none"
    /\ outcome = "running"

Next ==
    \/ CppValidate
    \/ CppMkdtemp
    \/ CppWrite
    \/ CppCompile
    \/ CppExecute
    \/ CppCleanup
    \/ GoMkdtemp
    \/ GoWrite
    \/ GoBuild
    \/ GoRun
    \/ GoRemoveImage
    \/ GoRemoveTempDir
    \/ PyMkdtemp
    \/ PyWrite
    \/ PyBuild
    \/ PyRun
    \/ PyRemoveImage
    \/ PyRemoveTempDir

Spec == Init /\ [][Next]_vars

TypeOK ==
    /\ runner \in {"cpp", "go", "python"}
    /\ pc \in {"validate", "mkdtemp", "write", "compile", "execute",
               "cleanup", "build", "run", "finally_image", "finally_dir",
               "done"}
    /\ pending \in {"none", "return", "raise"}
    /\ outcome \in {"running", "returned", "raised"}
    /\ (outcome # "running") <=> (pc = "done")


\* ------------------------------------------------------------------
\* Concurrent executions.  SpecConc runs MaxExecs calls of the runners
\* side by side, interleaved step by step, against one file system and
\* one docker daemon.  The variables are those of Spec, read per
\* execution: runner, args, pc, result, temp_dir, image_built, pending
\* and outcome are functions of the execution; dir_exists is the set of
\* directories that exist on the host and images the set of tags the
\* daemon holds, both shared.  args[e].exec_id is the value uuid.uuid4()
\* gave execution e.  The locals temp_dir and image_built of an execution
\* end with its call.  The histories calls, fs_ops and log are not kept.
\* ------------------------------------------------------------------
MaxExecs == 2

Execs == 1..MaxExecs

\* uuid.uuid4(): 122 random bits; two calls are taken never to return the
\* same value
Uuids == {Str(i) : i \in 1..MaxExecs}

IssuedUuids == {args[e].exec_id[1] : e \in {f \in Execs : args[f].exec_id # None}}

\* the random part tempfile.mkdtemp appends to the prefix
Suffixes == {"a", "b"}

\* tempfile.mkdtemp: os.mkdir of prefix + random suffix, tried again with
\* another suffix while the name exists, so the directory returned did not
\* exist before the call
mkdtemp(prefix) == {prefix \o <<s>> : s \in Suffixes} \ dir_exists

ConcTag(e) == ImageTag(runner[e], args[e].exec_id[1])

ConcHistoriesUnchanged == UNCHANGED <<runner, result, calls, fs_ops, log, pending>>

\* exec_id = str(uuid.uuid4())
ConcUuid4(e) ==
    /\ pc[e] = "uuid4"
    /\ \E id \in Uuids \ IssuedUuids :
          args' = [args EXCEPT ![e].exec_id = Some(id)]
    /\ pc' = [pc EXCEPT ![e] = "mkdtemp"]
    /\ UNCHANGED <<temp_dir, dir_exists, image_built, images, outcome>>
    /\ ConcHistoriesUnchanged

\* temp_dir = tempfile.mkdtemp(prefix=...) in run_go_code / run_python_code;
\* an OSError goes to the except clause and then to the finally block
ConcImgMkdtemp(e) ==
    /\ pc[e] = "mkdtemp" /\ runner[e] # "cpp"
    /\ \/ \E d \in mkdtemp(TempDirPrefix(runner[e], args[e].exec_id[1])) :
             /\ temp_dir' = [temp_dir EXCEPT ![e] = Some(d)]
             /\ dir_exists' = dir_exists \cup {d}
             /\ pc' = [pc EXCEPT ![e] = "build"]
       \/ /\ UNCHANGED <<temp_dir, dir_exists>>
          /\ pc' = [pc EXCEPT ![e] = "finally_image"]
    /\ UNCHANGED <<args, image_built, images, outcome>>
    /\ ConcHistoriesUnchanged

\* the source and the Dockerfile are written into temp_dir and
\* docker build -t docker_image_tag is invoked; image_built = True only
\* after a build that returned 0
ConcImgBuild(e) ==
    /\ pc[e] = "build"
    /\ \/ /\ images' = images \cup {ConcTag(e)}
          /\ image_built' = [image_built EXCEPT ![e] = TRUE]
          /\ pc' = [pc EXCEPT ![e] = "run"]
       \/ /\ UNCHANGED <<images, image_built>>
          /\ pc' = [pc EXCEPT ![e] = "finally_image"]
    /\ UNCHANGED <<args, temp_dir, dir_exists, outcome>>
    /\ ConcHistoriesUnchanged

\* docker run --rm ... docker_image_tag, whatever its outcome
ConcImgRun(e) ==
    /\ pc[e] = "run"
    /\ pc' = [pc EXCEPT ![e] = "finally_image"]
    /\ UNCHANGED <<args, temp_dir, dir_exists, image_built, images, outcome>>
    /\ ConcHistoriesUnchanged

\* finally: if image_built: docker rmi -f docker_image_tag (a failure is
\* only logged)
ConcImgRemoveImage(e) ==
    /\ pc[e] = "finally_image"
    /\ IF image_built[e]
       THEN \/ images' = images \ {ConcTag(e)}
            \/ UNCHANGED images
       ELSE UNCHANGED images
    /\ pc' = [pc EXCEPT ![e] = "finally_dir"]
    /\ UNCHANGED <<args, temp_dir, dir_exists, image_built, outcome>>
    /\ ConcHistoriesUnchanged

\* finally: if temp_dir and os.path.exists(temp_dir): shutil.rmtree(temp_dir)
\* inside try/except (a failure is only logged)
ConcImgRemoveTempDir(e) ==
    /\ pc[e] = "finally_dir"
    /\ IF temp_dir[e] # None /\ temp_dir[e][1] \in dir_exists
       THEN \/ dir_exists' = dir_exists \ {temp_dir[e][1]}
            \/ UNCHANGED dir_exists
       ELSE UNCHANGED dir_exists
    /\ pc' = [pc EXCEPT ![e] = "done"]
    /\ outcome' = [outcome EXCEPT ![e] = "returned"]
    /\ temp_dir' = [temp_dir EXCEPT ![e] = None]
    /\ image_built' = [image_built EXCEPT ![e] = FALSE]
    /\ UNCHANGED <<args, images>>
    /\ ConcHistoriesUnchanged

\* temp_dir = tempfile.mkdtemp() in run_cpp_code; an OSError leaves
\* temp_dir None and goes to the finally block
ConcCppMkdtemp(e) ==
    /\ pc[e] = "mkdtemp" /\ runner[e] = "cpp"
    /\ \/ \E d \in mkdtemp(TempDirPrefix("cpp", None)) :
             /\ temp_dir' = [temp_dir EXCEPT ![e] = Some(d)]
             /\ dir_exists' = dir_exists \cup {d}
             /\ pc' = [pc EXCEPT ![e] = "docker"]
       \/ /\ UNCHANGED <<temp_dir, dir_exists>>
          /\ pc' = [pc EXCEPT ![e] = "cleanup"]
    /\ UNCHANGED <<args, image_built, images, outcome>>
    /\ ConcHistoriesUnchanged

\* the source is written to temp_dir and the compile and execute
\* containers run with temp_dir mounted at /sandbox, whatever their outcome
ConcCppDocker(e) ==
    /\ pc[e] = "docker"
    /\ pc' = [pc EXCEPT ![e] = "cleanup"]
    /\ UNCHANGED <<args, temp_dir, dir_exists, image_built, images, outcome>>
    /\ ConcHistoriesUnchanged

\* finally: if temp_dir and os.path.exists(temp_dir): shutil.rmtree(temp_dir),
\* whose exception propagates to the caller
ConcCppCleanup(e) ==
    /\ pc[e] = "cleanup"
    /\ IF temp_dir[e] # None /\ temp_dir[e][1] \in dir_exists
       THEN \/ /\ dir_exists' = dir_exists \ {temp_dir[e][1]}
               /\ outcome' = [outcome EXCEPT ![e] = "returned"]
            \/ /\ UNCHANGED dir_exists
               /\ outcome' = [outcome EXCEPT ![e] = "raised"]
       ELSE /\ UNCHANGED dir_exists
            /\ outcome' = [outcome EXCEPT ![e] =
                               IF temp_dir[e] = None THEN "raised"
                                                     ELSE "returned"]
    /\ pc' = [pc EXCEPT ![e] = "done"]
    /\ temp_dir' = [temp_dir EXCEPT ![e] = None]
    /\ UNCHANGED <<args, image_built, images>>
    /\ ConcHistoriesUnchanged

ConcInit ==
    /\ runner \in [Execs -> {"cpp", "go", "python"}]
    /\ args = [e \in Execs |-> [exec_id |-> None]]
    /\ pc = [e \in Execs |-> IF runner[e] = "cpp" THEN "mkdtemp" ELSE "uuid4"]
    /\ result = [e \in Execs |-> None]
    /\ temp_dir = [e \in Execs |-> None]
    /\ dir_exists = {}
    /\ image_built = [e \in Execs |-> FALSE]
    /\ images = {}
    /\ calls = <<>>
    /\ fs_ops = <<>>
    /\ log = <<>>
    /\ pending = [e \in Execs |-> "none"]
    /\ outcome = [e \in Execs |-> "running"]

ConcNext ==
    \E e \in Execs :
       \/ ConcUuid4(e)
       \/ ConcImgMkdtemp(e)
       \/ ConcImgBuild(e)
       \/ ConcImgRun(e)
       \/ ConcImgRemoveImage(e)
       \/ ConcImgRemoveTempDir(e)
       \/ ConcCppMkdtemp(e)
       \/ ConcCppDocker(e)
       \/ ConcCppCleanup(e)

SpecConc == ConcInit /\ [][ConcNext]_vars

\* ------------------------------------------------------------------
\* bash_tool.py: run_bash_command.  SpecBash is one call of it.  The
\* variables are those of Spec: args holds command and timeout, result
\* the locals stdout, stderr, exit_code and timed_out (None while
\* unassigned) and, once the call has returned, result_dict; calls holds
\* the process Popen spawned, with its state and what it has written to
\* its pipes.  The variables of the docker runners stay as they start.
\* ------------------------------------------------------------------

\* bytes.decode() of a text-mode pipe (errors='strict'): the text, or a
\* UnicodeDecodeError
decode_strict(b) == [ok |-> ~Contains(b, BadByte), text |-> b]

\* shlex.split: whitespace separates the tokens, a quote groups what is up
\* to the next quote into the token, an open quote at the end of the text is
\* ValueError("No closing quotation")
RECURSIVE shlex_scan(_, _, _, _)
shlex_scan(t, in_quote, tok, toks) ==
    IF t = <<>>
    THEN IF in_quote
         THEN [ok |-> FALSE, parts |-> <<>>]
         ELSE [ok |-> TRUE,
               parts |-> IF tok = None THEN toks ELSE Append(toks, tok[1])]
    ELSE LET c == Head(t)
             cur == IF tok = None THEN <<>> ELSE tok[1]
         IN CASE c = "'" ->
                   shlex_scan(Tail(t), ~in_quote, Some(cur), toks)
              [] c # "'" /\ IsWhitespace(c) /\ ~in_quote ->
                   shlex_scan(Tail(t), FALSE, None,
                              IF tok = None THEN toks ELSE Append(toks, cur))
              [] OTHER ->
                   shlex_scan(Tail(t), in_quote, Some(cur \o <<c>>), toks)

shlex_split(t) == shlex_scan(t, FALSE, None, <<>>)

\* the command given: a string (a text) or a list of arguments
BashCommands ==
    { [type |-> "str", value |-> <<>>],
      [type |-> "str", value |-> <<" ">>],
      [type |-> "str", value |-> <<"true">>],
      [type |-> "str", value |-> <<"echo", " ", "'", "a", " ", "b", "'">>],
      [type |-> "str", value |-> <<"echo", " ", "'", "a">>],
      [type |-> "list", value |-> <<>>],
      [type |-> "list", value |-> <<<<"echo">>, <<"x">>>>] }

BashArgs == [command : BashCommands, timeout : Timeouts]

\* if isinstance(command, str): cmd_parts = shlex.split(command)
\* else: cmd_parts = command
Tokenize(command) ==
    IF command.type = "str" THEN shlex_split(command.value)
    ELSE [ok |-> TRUE, parts |-> command.value]

cmd_parts == Tokenize(args.command).parts

\* mutant: no command is taken to be empty
IsEmptyCommandNever(parts) == FALSE

\* if not cmd_parts:
IsEmptyCommand(parts) == parts = <<>>

EmptyCommandResult ==
    [stdout |-> <<>>, stderr |-> <<"Error: Empty command provided.">>,
     exit_code |-> -1, timed_out |-> FALSE]

BashLocalsUnassigned ==
    [stdout |-> None, stderr |-> None, exit_code |-> None, timed_out |-> None]

BashLocals(stdout, stderr, exit_code, timed_out) ==
    [stdout |-> Some(stdout), stderr |-> Some(stderr),
     exit_code |-> Some(exit_code), timed_out |-> Some(timed_out)]

\* except FileNotFoundError:
CommandNotFoundLocals(parts) ==
    BashLocals(<<>>,
               <<"Error: Command or executable not found: ">> \o parts[1],
               -1, FALSE)

\* except Exception as e:
UnexpectedErrorLocals(etype, what) ==
    BashLocals(<<>>, <<"An unexpected error occurred: ", etype, " - ", what>>,
               -1, FALSE)

\* stderr = f"Command timed out after {timeout} seconds.\n{stderr}"
TimedOutStderr(timeout, stderr) ==
    <<"Command timed out after ", Str(timeout), " seconds.", "\n">> \o stderr

BashUnchanged ==
    UNCHANGED <<runner, args, temp_dir, dir_exists, image_built, images,
                fs_ops, log, pending>>

\* lines 31-47: the command is tokenized, a ValueError of shlex.split
\* propagates to the caller, an empty cmd_parts is answered at once
BashSplit ==
    /\ pc = "split"
    /\ LET sp == Tokenize(args.command) IN
       IF ~sp.ok
       THEN /\ pc' = "done" /\ outcome' = "raised"
            /\ UNCHANGED result
       ELSE IF IsEmptyCommand(sp.parts)
       THEN /\ result' = EmptyCommandResult
            /\ pc' = "done" /\ outcome' = "returned"
       ELSE /\ pc' = "popen"
            /\ UNCHANGED <<result, outcome>>
    /\ UNCHANGED calls
    /\ BashUnchanged

\* process = subprocess.Popen(cmd_parts, ...), with its except clauses
BashPopen ==
    /\ pc = "popen"
    /\ \/ /\ calls' = <<[cmd |-> cmd_parts, state |-> "running",
                         expired |-> FALSE, stdout |-> <<>>, stderr |-> <<>>]>>
          /\ pc' = "communicate"
          /\ UNCHANGED result
       \/ /\ result' = CommandNotFoundLocals(cmd_parts)
          /\ pc' = "return"
          /\ UNCHANGED calls
       \/ /\ result' = UnexpectedErrorLocals("PermissionError",
                                             "Permission denied")
          /\ pc' = "return"
          /\ UNCHANGED calls
    /\ UNCHANGED outcome
    /\ BashUnchanged

\* stdout, stderr = process.communicate(timeout=timeout), with its except
\* clauses: the process ends in time, or TimeoutExpired is raised while it
\* runs (it may still end by itself before it is killed)
BashCommunicate ==
    /\ pc = "communicate"
    /\ \/ \E rc \in 0..MaxExitCode, out \in PartialOuts, err \in Errs :
            /\ calls' = [calls EXCEPT ![1].state = "exited",
                                      ![1].stdout = out, ![1].stderr = err]
            /\ result' = IF decode_strict(out).ok
                         THEN BashLocals(decode_strict(out).text, err, rc,
                                         FALSE)
                         ELSE UnexpectedErrorLocals("UnicodeDecodeError",
                                  "'utf-8' codec can't decode byte 0xff")
            /\ pc' = "return"
       \/ \E st \in {"running", "exited"} :
            /\ calls' = [calls EXCEPT ![1].state = st, ![1].expired = TRUE]
            /\ pc' = "kill"
            /\ UNCHANGED result
    /\ UNCHANGED outcome
    /\ BashUnchanged

\* process.kill()
BashKill ==
    /\ pc = "kill"
    /\ calls' = [calls EXCEPT ![1].state =
                    IF calls[1].state = "running" THEN "killed"
                    ELSE calls[1].state]
    /\ pc' = "communicate_after_kill"
    /\ UNCHANGED <<result, outcome>>
    /\ BashUnchanged

\* lines 64-67, inside the except clause: an exception of this
\* communicate() is caught by nothing and propagates to the caller
BashCommunicateAfterKill ==
    /\ pc = "communicate_after_kill"
    /\ \E out \in PartialOuts, err \in PartialErrs :
         /\ calls' = [calls EXCEPT ![1].stdout = out, ![1].stderr = err]
         /\ IF decode_strict(out).ok
            THEN /\ result' = BashLocals(decode_strict(out).text,
                                  TimedOutStderr(args.timeout, err), -1, TRUE)
                 /\ pc' = "return"
                 /\ UNCHANGED outcome
            ELSE /\ pc' = "done" /\ outcome' = "raised"
                 /\ UNCHANGED result
    /\ BashUnchanged

\* result_dict = {...}; return result_dict
BashReturn ==
    /\ pc = "return"
    /\ result' = [stdout |-> result.stdout[1], stderr |-> result.stderr[1],
                  exit_code |-> result.exit_code[1],
                  timed_out |-> result.timed_out[1]]
    /\ pc' = "done" /\ outcome' = "returned"
    /\ UNCHANGED calls
    /\ BashUnchanged

BashInit ==
    /\ runner = "bash"
    /\ args \in BashArgs
    /\ pc = "split"
    /\ result = BashLocalsUnassigned
    /\ temp_dir = None
    /\ dir_exists = FALSE
    /\ image_built = FALSE
    /\ images = {}
    /\ calls = <<>>
    /\ fs_ops = <<>>
    /\ log = <<>>
    /\ pending = "none"
    /\ outcome = "running"

BashNext ==
    \/ BashSplit
    \/ BashPopen
    \/ BashCommunicate
    \/ BashKill
    \/ BashCommunicateAfterKill
    \/ BashReturn

SpecBash == BashInit /\ [][BashNext]_vars

\* ------------------------------------------------------------------
\* mcp_cpp_server.py: execute_cpp, and mcp_python_server.py:
\* execute_python_code_tool.  SpecMcp is one call of one of the two tools:
\* the tool's own steps around the steps of the runner it calls, which are
\* the actions of Spec.  pc = "tool" is the tool before the call and
\* pc = "tool_done" the tool completed; args holds the tool's arguments
\* next to those it hands to the runner.
\* ------------------------------------------------------------------

\* compile_timeout: int = 10, exec_timeout: int = 5
DEFAULT_COMPILE_TIMEOUT == 10
DEFAULT_EXEC_TIMEOUT == 5

\* the characters of a compiler_choice, as a text
Chars(a) ==
    CASE a = ""     -> <<>>
      [] a = " "    -> <<" ">>
      [] a = " g++" -> <<" ", "g++">>
      [] OTHER      -> <<a>>

\* str.rstrip(): drops the trailing whitespace
RECURSIVE rstrip(_)
rstrip(t) ==
    IF t # <<>> /\ IsWhitespace(t[Len(t)])
    THEN rstrip(SubSeq(t, 1, Len(t) - 1)) ELSE t

\* str.strip()
strip(t) == rstrip(lstrip(t))

CompilerChoices ==
    {None, Some(""), Some(" "), Some("g++"), Some("clang++"), Some("gcc"),
     Some(" g++")}

\* mutant: only None and the empty string fall back to g++
SelectedCompilerNoStrip(compiler_choice) ==
    IF compiler_choice # None /\ Chars(compiler_choice[1]) # <<>>
    THEN compiler_choice[1] ELSE "g++"

\* selected_compiler = compiler_choice
\*     if compiler_choice and compiler_choice.strip() else "g++"
SelectedCompiler(compiler_choice) ==
    IF /\ compiler_choice # None
       /\ Chars(compiler_choice[1]) # <<>>
       /\ strip(Chars(compiler_choice[1])) # <<>>
    THEN compiler_choice[1] ELSE "g++"

McpCppArgs ==
    [compiler_choice : CompilerChoices, compiler : {"-"},
     stdin_data : StdinData,
     compile_timeout : {DEFAULT_COMPILE_TIMEOUT},
     exec_timeout : {DEFAULT_EXEC_TIMEOUT},
     timeout : {1}, cpu_limit : {"-"}, memory_limit : {"-"},
     code : {<<"int main() {}">>}]

McpPyArgs == {a \in ImgArgs : a.cpu_limit = DEFAULT_CPU_LIMIT}

\* what str(e) is for the exceptions the call of run_python_code can raise
McpExceptions == {"Unexpected runner crash!"}

\* the dictionary returned by the except clause of the tool
ServerSideErrorResult(e) ==
    [stdout |-> <<>>,
     stderr |-> <<"Server-side error invoking python_runner: ", e>>,
     exit_code |-> -1,
     timed_out |-> FALSE,
     error |-> Some(<<"Server-side error.">>)]

\* mutant: the key is assigned whether or not the record has it
setdefault_overwrite(rec, key, v) ==
    [k \in DOMAIN rec \cup {key} |-> IF k = key THEN v ELSE rec[k]]

\* dict.setdefault(key, v)
setdefault(rec, key, v) ==
    IF key \in DOMAIN rec THEN rec
    ELSE [k \in DOMAIN rec \cup {key} |-> IF k = key THEN v ELSE rec[k]]

\* result.setdefault('stdout', '') ... result.setdefault('error', None)
WithDefaults(res) ==
    setdefault(setdefault(setdefault(setdefault(setdefault(res,
        "stdout", <<>>), "stderr", <<>>), "exit_code", -1),
        "timed_out", FALSE), "error", None)

McpUnchanged ==
    UNCHANGED <<runner, temp_dir, dir_exists, image_built, images, calls,
                fs_ops, log>>

\* execute_cpp up to the call of run_cpp_code
McpExecuteCpp ==
    /\ runner = "cpp" /\ pc = "tool"
    /\ args' = [args EXCEPT !.compiler = SelectedCompiler(args.compiler_choice)]
    /\ result' = InitialCppResults
    /\ pc' = "validate"
    /\ UNCHANGED <<pending, outcome>>
    /\ McpUnchanged

\* execute_cpp after run_cpp_code: return result; an exception of
\* run_cpp_code is not caught
McpCppReturn ==
    /\ runner = "cpp" /\ pc = "done"
    /\ pc' = "tool_done"
    /\ UNCHANGED <<args, result, pending, outcome>>
    /\ McpUnchanged

\* execute_python_code_tool up to the call of run_python_code in the
\* executor; if the call raises, the except clause returns its dictionary
McpExecutePython ==
    /\ runner = "python" /\ pc = "tool"
    /\ \/ /\ result' = InitialResult
          /\ pc' = "mkdtemp"
          /\ UNCHANGED <<pending, outcome>>
       \/ \E e \in McpExceptions :
            /\ result' = ServerSideErrorResult(e)
            /\ pending' = "raise"
            /\ pc' = "tool_done"
            /\ outcome' = "returned"
    /\ UNCHANGED args
    /\ McpUnchanged

\* execute_python_code_tool after run_python_code: its dictionary with the
\* defaults set, or the except clause's when run_python_code raised
McpPythonReturn ==
    /\ runner = "python" /\ pc = "done"
    /\ IF outcome = "raised"
       THEN \E e \in McpExceptions :
              /\ result' = ServerSideErrorResult(e)
              /\ pending' = "raise"
       ELSE /\ result' = WithDefaults(result)
            /\ UNCHANGED pending
    /\ outcome' = "returned"
    /\ pc' = "tool_done"
    /\ UNCHANGED args
    /\ McpUnchanged

McpInit ==
    /\ runner \in {"cpp", "python"}
    /\ args \in IF runner = "cpp" THEN McpCppArgs ELSE McpPyArgs
    /\ pc = "tool"
    /\ result = None
    /\ temp_dir = None
    /\ dir_exists = FALSE
    /\ image_built = FALSE
    /\ images = {}
    /\ calls = <<>>
    /\ fs_ops = <<>>
    /\ log = <<>>
    /\ pending = "none"
    /\ outcome = "running"

McpNext ==
    \/ McpExecuteCpp
    \/ CppValidate
    \/ CppMkdtemp
    \/ CppWrite
    \/ CppCompile
    \/ CppExecute
    \/ CppCleanup
    \/ McpCppReturn
    \/ McpExecutePython
    \/ PyMkdtemp
    \/ PyWrite
    \/ PyBuild
    \/ PyRun
    \/ PyRemoveImage
    \/ PyRemoveTempDir
    \/ McpPythonReturn

SpecMcp == McpInit /\ [][McpNext]_vars


----------------------------------------------------------------------------
(* Properties *)

Done == pc = "done"

\* the number of docker invocations of one kind made so far
CountCmd(cmd) == Cardinality({i \in 1..Len(calls) : calls[i].cmd = cmd})

\* the positions of the workspace deletions made so far
RmtreeAttempts == {i \in 1..Len(fs_ops) : fs_ops[i].op = "rmtree"}

ExecutionUnset ==
    /\ result.execution_stdout = None
    /\ result.execution_stderr = None
    /\ result.execution_exit_code = None
    /\ result.timed_out_execution = FALSE

\* C1: in run_cpp_code, once the compile invocation has ended with a
\* non-zero (or unset) compilation_exit_code or with timed_out_compilation,
\* the execute invocation is never made and the execution fields of the
\* record stay None, with timed_out_execution false.
C1_FailedCompilationSkipsExecution ==
    (/\ runner = "cpp"
     /\ CountCmd("compile") = 1
     /\ \/ result.compilation_exit_code # Some(0)
        \/ result.timed_out_compilation)
    => /\ pc # "execute"
       /\ CountCmd("execute") = 0
       /\ ExecutionUnset

C1_Witness ==
    /\ runner = "cpp" /\ Done /\ outcome = "returned"
    /\ CountCmd("compile") = 1
    /\ result.compilation_exit_code = Some(1)
    /\ ~result.timed_out_compilation

\* C2: run_cpp_code with a compiler other than "g++" and "clang++" returns
\* compilation_exit_code -100, compiler_used "none", a compilation_stderr
\* naming the value, both timed_out flags false and the execution fields
\* unset, without creating a directory or invoking docker.
C2_UnsupportedCompilerFailsFast ==
    (runner = "cpp" /\ args.compiler \notin {"g++", "clang++"})
    => /\ pc \in {"validate", "done"}
       /\ calls = <<>>
       /\ fs_ops = <<>>
       /\ temp_dir = None
       /\ Done =>
            /\ outcome = "returned"
            /\ result.compilation_exit_code = Some(-100)
            /\ result.compiler_used = "none"
            /\ Contains(result.compilation_stderr, args.compiler)
            /\ result.timed_out_compilation = FALSE
            /\ ExecutionUnset

C2_Witness ==
    /\ runner = "cpp" /\ args.compiler = "gcc" /\ Done
    /\ result.compilation_exit_code = Some(-100)

\* C3 as stated: a workspace directory that was created no longer exists
\* when the call completes.
C3_WorkspaceGoneAtCompletion ==
    (Done /\ temp_dir # None) => ~dir_exists

\* C3 amended: on every exit path of a call that created a workspace
\* directory exactly one deletion of it is attempted, as the last file
\* system operation, and the directory still exists at completion only if
\* that deletion failed.
C3_WorkspaceDeletionAttempted ==
    (Done /\ temp_dir # None)
    => /\ RmtreeAttempts = {Len(fs_ops)}
       /\ dir_exists <=> ~fs_ops[Len(fs_ops)].ok

C3_Witness ==
    /\ runner = "go" /\ Done /\ temp_dir # None /\ ~dir_exists
    /\ CountCmd("build") = 1 /\ CountCmd("run") = 0

\* C4: a failure of the workspace deletion is only logged: the call still
\* completes the way its try block was left (it returns the result unless
\* an exception was already on its way) and the result is not changed.
C4_DeletionFailureOnlyLogged ==
    [][(/\ pc \in {"cleanup", "finally_dir"}
        /\ temp_dir # None /\ dir_exists /\ dir_exists')
       => /\ result' = result
          /\ pending # "raise" => outcome' = "returned"]_vars


ImageRunner == runner \in {"go", "python"}

\* the build invocation returned exit code 0 without timing out
BuildSucceeded ==
    /\ CountCmd("build") = 1
    /\ calls[1].ret.returncode = 0
    /\ ~calls[1].ret.timed_out

C5_State ==
    ImageRunner
    => /\ \A i \in 1..Len(calls) :
            calls[i].cmd = "rmi"
            => /\ i = 3
               /\ calls[2].cmd = "run"
               /\ calls[i].image = calls[1].image
       /\ (BuildSucceeded /\ Done)
          => /\ CountCmd("rmi") = 1
             /\ outcome = "returned"
             /\ \/ calls[1].image \notin images
                \/ Contains(log, "Warning: Failed to remove Docker image")

\* C5: in run_go_code and run_python_code, once the build has succeeded,
\* exactly one removal of the execution's image is invoked, after the run
\* invocation, however the run ended; the removal step leaves the result
\* unchanged and does not end the call, and at completion the image is
\* absent or the failed removal was logged.
C5_ImageRemovedOnceAfterRun ==
    [][/\ C5_State'
       /\ (ImageRunner /\ pc = "finally_image")
          => (result' = result /\ outcome' = "running")]_vars

C5_Witness ==
    /\ runner = "python" /\ Done /\ BuildSucceeded
    /\ result.timed_out
    /\ CountCmd("rmi") = 1
    /\ calls[3].outcome.kind = "TimeoutExpired"
    /\ calls[1].image \in images
    /\ Contains(log, "Warning: Failed to remove Docker image")

\* C6: in the result of every runner a phase reported as timed out has an
\* exit code that is set and is not 0.
C6_TimedOutNeverExitsZero ==
    IF runner = "cpp"
    THEN /\ result.timed_out_compilation
            => result.compilation_exit_code \notin {None, Some(0)}
         /\ result.timed_out_execution
            => result.execution_exit_code \notin {None, Some(0)}
    ELSE result.timed_out => result.exit_code # 0

C6_Witness ==
    /\ runner = "go" /\ Done /\ outcome = "returned"
    /\ CountCmd("run") = 1
    /\ result.timed_out
    /\ result.exit_code = 137

\* the staging of the workspace raised
StagingFailed == \E i \in 1..Len(fs_ops) :
    fs_ops[i].op \in {"mkdtemp", "write"} /\ ~fs_ops[i].ok

\* the i-th docker invocation failed because of the user's own code: the
\* program crashed in the run, or (Go, whose image build compiles the
\* program) did not compile in the build
UserCodeFailure(i) ==
    /\ calls[i].outcome.cause = "user_code"
    /\ calls[i].cmd = "run" \/ (calls[i].cmd = "build" /\ runner = "go")

\* C7 as stated: error is set only for infrastructure failures, and a
\* failure of the user's own code (a compile error during the build, a
\* crash during the run) leaves error null.
C7_UserCodeFailureLeavesErrorNull ==
    (ImageRunner /\ Done)
    => /\ (\E i \in 1..Len(calls) : UserCodeFailure(i)) => result.error = None
       /\ result.error # None
          => \/ StagingFailed
             \/ CountCmd("build") = 1 /\ ~UserCodeFailure(1)

\* C7 amended: error is set exactly when the staging of the workspace
\* raised or the image build did not succeed (backend missing, timeout, or
\* a non-zero exit code, whatever its cause: for Go also a compile error of
\* the user's code); once the run is invoked error stays null, so a crash
\* of the user's program is reported through exit_code and stderr only.
C7_ErrorSetIffStagingOrBuildFailed ==
    (ImageRunner /\ Done)
    => /\ result.error # None
          <=> \/ StagingFailed
              \/ /\ CountCmd("build") = 1
                 /\ calls[1].ret.timed_out \/ calls[1].ret.returncode # 0
       /\ CountCmd("run") = 1 => result.error = None

C7_Witness ==
    /\ runner = "go" /\ Done
    /\ CountCmd("build") = 1
    /\ calls[1].outcome.kind = "completed"
    /\ calls[1].outcome.cause = "user_code"
    /\ result.error = Some(<<"Docker image build for Go failed.">>)
    /\ result.exit_code = calls[1].outcome.returncode

\* C8: when the build succeeded and the run invocation returned a non-zero
\* exit code without timing out, the result has error null, timed_out
\* false, and the stdout, stderr and exit_code the run invocation returned
\* (for a child that ran to completion: the child's own).
C8_FailedRunReportedVerbatim ==
    (/\ ImageRunner
     /\ CountCmd("run") = 1
     /\ calls[2].ret.returncode # 0
     /\ ~calls[2].ret.timed_out)
    => /\ result.error = None
       /\ result.timed_out = FALSE
       /\ result.stdout = calls[2].ret.stdout
       /\ result.stderr = calls[2].ret.stderr
       /\ result.exit_code = calls[2].ret.returncode
       /\ calls[2].outcome.kind = "completed"
          => /\ result.stdout = calls[2].outcome.stdout
             /\ result.stderr = calls[2].outcome.stderr
             /\ result.exit_code = calls[2].outcome.returncode

C8_Witness ==
    /\ runner = "go" /\ Done /\ outcome = "returned"
    /\ CountCmd("run") = 1
    /\ calls[2].outcome.kind = "completed"
    /\ calls[2].outcome.cause = "user_code"
    /\ result.exit_code = 2
    /\ result.stderr = <<"err">>

\* C9: when the build invocation returns a non-zero exit code without
\* timing out, the result has the build-failed message as error, the
\* build's return code as exit_code, timed_out false, an empty stdout and a
\* stderr containing the build's stdout and stderr; the build is the only
\* docker invocation of the call.
C9_FailedBuildSkipsRun ==
    (/\ ImageRunner
     /\ CountCmd("build") = 1
     /\ calls[1].ret.returncode # 0
     /\ ~calls[1].ret.timed_out)
    => /\ result.error =
            Some(<<IF runner = "go" THEN "Docker image build for Go failed."
                                    ELSE "Docker image build failed.">>)
       /\ result.exit_code = calls[1].ret.returncode
       /\ result.timed_out = FALSE
       /\ result.stdout = <<>>
       /\ ContainsText(result.stderr, calls[1].ret.stdout)
       /\ ContainsText(result.stderr, calls[1].ret.stderr)
       /\ Len(calls) = 1
       /\ pc \in {"finally_image", "finally_dir", "done"}

C9_Witness ==
    /\ runner = "python" /\ Done /\ outcome = "returned"
    /\ Len(calls) = 1
    /\ calls[1].outcome.kind = "completed"
    /\ calls[1].outcome.returncode = 1
    /\ calls[1].outcome.stdout = <<"out">>
    /\ calls[1].outcome.stderr = <<"err">>
    /\ result.exit_code = 1

\* C10: when the docker executable is missing, the process executor of the
\* Go and Python runners returns exit code -1, timed_out false and a stderr
\* naming the command; a call whose build finds docker missing returns a
\* result with error set, a stderr naming the command and timed_out false,
\* after that one invocation.
C10_MissingBackendReported ==
    ImageRunner
    => /\ \A i \in 1..Len(calls) :
            calls[i].outcome.kind = "FileNotFoundError"
            => /\ calls[i].ret.returncode = -1
               /\ calls[i].ret.timed_out = FALSE
               /\ calls[i].ret.stdout = <<>>
               /\ Contains(calls[i].ret.stderr, "docker")
       /\ (CountCmd("build") = 1
           /\ calls[1].outcome.kind = "FileNotFoundError")
          => /\ Len(calls) = 1
             /\ result.error # None
             /\ Contains(result.stderr, "docker")
             /\ result.timed_out = FALSE
             /\ Done => outcome = "returned"

C10_Witness ==
    /\ runner = "python" /\ Done /\ outcome = "returned"
    /\ Len(calls) = 1
    /\ calls[1].outcome.kind = "FileNotFoundError"
    /\ result.error = Some(<<"Docker image build failed.">>)


\* C11: when tempfile.mkdtemp fails in run_python_code, error is "Error
\* during setup or Docker preparation: <message>" and no docker command is
\* invoked.
C11_SetupErrorMessage ==
    (/\ runner = "python" /\ Done
     /\ fs_ops # <<>>
     /\ fs_ops[1] = [op |-> "mkdtemp", ok |-> FALSE])
    => /\ \E e \in FsErrors :
            result.error =
                Some(<<"Error during setup or Docker preparation: ", e>>)
       /\ calls = <<>>

CppResultKeys ==
    {"compilation_stdout", "compilation_stderr", "compilation_exit_code",
     "timed_out_compilation", "execution_stdout", "execution_stderr",
     "execution_exit_code", "timed_out_execution", "compiler_used"}

ResultKeys == {"stdout", "stderr", "exit_code", "timed_out", "error"}

\* C12: every call of the three runners completes by returning a result
\* record with all the fields of its shape, and never by raising.
C12_AlwaysReturnsCompleteRecord ==
    /\ DOMAIN result = IF runner = "cpp" THEN CppResultKeys ELSE ResultKeys
    /\ Done => outcome = "returned"

\* the kinds of the docker invocations made so far, in order
Cmds == [i \in 1..Len(calls) |-> calls[i].cmd]

IsPrefix(s, t) == Len(s) <= Len(t) /\ \A i \in 1..Len(s) : s[i] = t[i]

\* C13: the docker invocations of a call are a prefix of build, run, rmi
\* (Go, Python) or of compile, execute (C++): each is made at most once, in
\* that order; the run (execute) is made only after the build (compile)
\* ended with exit code 0 without timing out.
C13_StrictSequenceNoRetry ==
    /\ IF runner = "cpp"
       THEN IsPrefix(Cmds, <<"compile", "execute">>)
       ELSE IsPrefix(Cmds, <<"build", "run", "rmi">>)
    /\ Len(calls) >= 2
       => /\ calls[1].outcome.kind = "completed"
          /\ calls[1].outcome.returncode = 0
    /\ (ImageRunner /\ Done /\ Len(calls) >= 1) => Len(calls) \in {1, 3}

C13_Witness ==
    /\ runner = "go" /\ Done
    /\ Cmds = <<"build", "run", "rmi">>
    /\ calls[2].outcome.kind = "TimeoutExpired"


\* C15: in run_cpp_code, when the execute invocation is made, stdin_data
\* (if supplied) is what is written to the standard input of the executed
\* program, and of it only (the compile invocation gets no input); without
\* stdin_data no input is supplied; the execution fields are the program's
\* own stdout, stderr and exit code.
C15_StdinDeliveredToProgram ==
    (runner = "cpp" /\ CountCmd("execute") = 1)
    => /\ calls[1].input = None
       /\ args.stdin_data = None => calls[2].input = None
       /\ args.stdin_data # None
          => /\ calls[2].input # None
             /\ calls[2].input[1].data = args.stdin_data[1]
             /\ calls[2].outcome.kind # "FileNotFoundError"
                => calls[2].outcome.etype # "AttributeError"
       /\ calls[2].outcome.kind = "completed"
          => /\ result.execution_stdout = Some(calls[2].outcome.stdout)
             /\ result.execution_stderr = Some(calls[2].outcome.stderr)
             /\ result.execution_exit_code = Some(calls[2].outcome.returncode)


\* every atom of the partial output (but bytes that are not text) is in t
Preserved(partial, t) ==
    \A i \in 1..Len(partial) :
        partial[i] # BadByte => Contains(t, partial[i])

\* t ends with the marker "<phase> timed out after <n> seconds."
EndsWithMarker(t, phase, n) ==
    /\ Len(t) >= 3
    /\ SubSeq(t, Len(t) - 2, Len(t)) =
           <<phase \o " timed out after ", Str(n), " seconds.">>

\* C16: when a build or run phase of a runner times out, the output the
\* process had written before it was terminated is preserved in the
\* corresponding stdout and stderr fields of the result, and stderr ends
\* with the marker that the phase timed out after N seconds.
C16_PartialOutputPreserved ==
    \A i \in 1..Len(calls) :
        (calls[i].outcome.kind = "TimeoutExpired" /\ calls[i].cmd # "rmi")
        => LET o == calls[i].outcome IN
           CASE calls[i].cmd = "compile" ->
                  /\ Preserved(o.stdout, result.compilation_stdout)
                  /\ Preserved(o.stderr, result.compilation_stderr)
                  /\ EndsWithMarker(result.compilation_stderr,
                                    "Compilation", args.compile_timeout)
             [] calls[i].cmd = "execute" ->
                  /\ result.execution_stdout # None
                  /\ Preserved(o.stdout, result.execution_stdout[1])
                  /\ result.execution_stderr # None
                  /\ Preserved(o.stderr, result.execution_stderr[1])
                  /\ EndsWithMarker(result.execution_stderr[1],
                                    "Execution", args.exec_timeout)
             [] calls[i].cmd = "build" ->
                  /\ Preserved(o.stdout, result.stdout)
                  /\ Preserved(o.stderr, result.stderr)
                  /\ \E phase \in {"Execution", "Build"} :
                        EndsWithMarker(result.stderr, phase,
                                       calls[i].timeout)
             [] OTHER ->
                  /\ Preserved(o.stdout, result.stdout)
                  /\ Preserved(o.stderr, result.stderr)
                  /\ EndsWithMarker(result.stderr, "Execution", args.timeout)

\* C17: in the result of run_cpp_code, compilation_exit_code is None if the
\* docker command itself fails during compilation, and execution_exit_code
\* is None if the execution was skipped or the docker command fails during
\* execution.
C17_ExitCodeNoneOnDockerFailure ==
    (runner = "cpp" /\ Done)
    => /\ (CountCmd("compile") = 1
           /\ calls[1].outcome.kind \in {"FileNotFoundError", "Exception"})
          => result.compilation_exit_code = None
       /\ CountCmd("execute") = 0 => result.execution_exit_code = None
       /\ (CountCmd("execute") = 1
           /\ calls[2].outcome.kind \in {"FileNotFoundError", "Exception"})
          => result.execution_exit_code = None


\* C18: run_cpp_code with an empty source and a supported compiler always
\* returns a non-zero compilation_exit_code, timed_out_compilation false
\* and compiler_used equal to the requested compiler, without attempting
\* the execution, whatever the backend does with the empty file.
C18_EmptySourceFailsDeterministically ==
    (/\ runner = "cpp" /\ Done /\ outcome = "returned"
     /\ args.code = <<>>
     /\ args.compiler \in {"g++", "clang++"})
    => /\ result.compilation_exit_code \notin {None, Some(0)}
       /\ result.timed_out_compilation = FALSE
       /\ result.compiler_used = args.compiler
       /\ CountCmd("execute") = 0


\* C19: in run_go_code and run_python_code, when the run invocation timed
\* out the result has timed_out true, error null, a stderr ending with
\* "Execution timed out after <timeout> seconds." and exit code 137 if the
\* invocation returned 0 or -1, else the code the invocation returned.
C19_RunTimeoutNormalized ==
    (ImageRunner /\ CountCmd("run") = 1 /\ calls[2].ret.timed_out)
    => /\ result.timed_out = TRUE
       /\ result.error = None
       /\ EndsWithMarker(result.stderr, "Execution", args.timeout)
       /\ result.exit_code =
              IF calls[2].ret.returncode \in {0, -1}
              THEN 137 ELSE calls[2].ret.returncode

C19_Witness ==
    /\ runner = "python" /\ Done /\ outcome = "returned"
    /\ CountCmd("run") = 1
    /\ calls[2].outcome.kind = "TimeoutExpired"
    /\ args.timeout = 2
    /\ result.exit_code = 137
    /\ result.stderr = <<"Execution timed out.", "\n",
                         "Execution timed out after ", "2", " seconds.">>

\* C20: in run_cpp_code, an execute invocation that times out gives
\* compilation_exit_code 0, timed_out_compilation false,
\* timed_out_execution true, execution_exit_code -1 and an
\* execution_stderr containing "Execution timed out after <exec_timeout>
\* seconds."; a compile invocation that times out gives
\* timed_out_compilation true, compilation_exit_code -1 and a
\* compilation_stderr containing "Compilation timed out after
\* <compile_timeout> seconds.".
C20_CppTimeoutFields ==
    runner = "cpp"
    => /\ (CountCmd("execute") = 1
           /\ calls[2].outcome.kind = "TimeoutExpired")
          => /\ result.compilation_exit_code = Some(0)
             /\ result.timed_out_compilation = FALSE
             /\ result.timed_out_execution = TRUE
             /\ result.execution_exit_code = Some(-1)
             /\ result.execution_stderr # None
             /\ ContainsText(result.execution_stderr[1],
                    <<"Execution timed out after ", Str(args.exec_timeout),
                      " seconds.">>)
       /\ (CountCmd("compile") >= 1
           /\ calls[1].outcome.kind = "TimeoutExpired")
          => /\ result.timed_out_compilation = TRUE
             /\ result.compilation_exit_code = Some(-1)
             /\ ContainsText(result.compilation_stderr,
                    <<"Compilation timed out after ",
                      Str(args.compile_timeout), " seconds.">>)

C20_Witness ==
    /\ runner = "cpp" /\ Done /\ outcome = "returned"
    /\ args.compile_timeout = 1 /\ args.exec_timeout = 2
    /\ CountCmd("execute") = 1
    /\ calls[2].outcome.kind = "TimeoutExpired"
    /\ result.timed_out_execution


\* an execution holds its workspace from the mkdtemp that created it to
\* its own cleanup, and its image from the build to its own docker rmi
HoldsWorkspace(e) == temp_dir[e] # None /\ pc[e] # "done"

HoldsImage(e) == image_built[e] /\ pc[e] \in {"run", "finally_image"}

\* C14: of any two executions in progress, in every interleaving of their
\* steps, the workspace directories differ and (Go, Python) the image tags
\* differ; and the workspace and the image of an execution in progress
\* exist until its own cleanup, whatever the other executions delete.
C14_ConcurrentExecutionsDisjoint ==
    /\ \A e \in Execs : \A f \in Execs \ {e} :
          /\ (HoldsWorkspace(e) /\ HoldsWorkspace(f))
             => temp_dir[e] # temp_dir[f]
          /\ (/\ args[e].exec_id # None /\ pc[e] # "done"
              /\ args[f].exec_id # None /\ pc[f] # "done")
             => ConcTag(e) # ConcTag(f)
    /\ \A e \in Execs :
          /\ HoldsWorkspace(e) => temp_dir[e][1] \in dir_exists
          /\ HoldsImage(e) => ConcTag(e) \in images

\* execution 1 has removed the image it built and is about to remove its
\* workspace while execution 2, of the same runner, is between its build
\* and its run
C14_Witness ==
    /\ runner[1] = "go" /\ runner[2] = "go"
    /\ pc[1] = "finally_dir" /\ image_built[1]
    /\ ConcTag(1) \notin images
    /\ HoldsWorkspace(1)
    /\ pc[2] = "run" /\ HoldsImage(2) /\ HoldsWorkspace(2)


\* C21: in run_go_code and run_python_code, when the build invocation timed
\* out the result has error set, timed_out true, exit_code -1 and the stderr
\* the build invocation reported, and the build is the only docker
\* invocation the call makes (no run, no image removal).
C21_BuildTimeoutSkipsRunAndRemoval ==
    (ImageRunner /\ Len(calls) >= 1 /\ calls[1].ret.timed_out)
    => /\ result.error = Some(BuildTimedOutError(runner))
       /\ result.timed_out = TRUE
       /\ result.exit_code = -1
       /\ result.stderr = calls[1].ret.stderr
       /\ Len(calls) = 1
       /\ pc \in {"finally_image", "finally_dir", "done"}

C21_Witness ==
    /\ runner = "go" /\ Done /\ outcome = "returned"
    /\ Len(calls) = 1 /\ calls[1].cmd = "build"
    /\ calls[1].outcome.kind = "TimeoutExpired"
    /\ calls[1].outcome.stderr = <<"err">>
    /\ result.timed_out

\* C22: a returned record never reports a clean run that did not happen:
\* for run_go_code and run_python_code exit_code = 0 needs a build that
\* succeeded and a run invocation that completed with exit code 0 without
\* timing out; for run_cpp_code execution_exit_code = 0 needs
\* compilation_exit_code = 0 and neither phase timed out.
C22_NoCleanRunThatDidNotHappen ==
    (Done /\ outcome = "returned")
    => IF ImageRunner
       THEN result.exit_code = 0
            => /\ BuildSucceeded
               /\ CountCmd("run") = 1
               /\ calls[2].cmd = "run"
               /\ calls[2].outcome.kind = "completed"
               /\ calls[2].outcome.returncode = 0
               /\ ~result.timed_out
       ELSE result.execution_exit_code = Some(0)
            => /\ result.compilation_exit_code = Some(0)
               /\ result.timed_out_compilation = FALSE
               /\ result.timed_out_execution = FALSE
               /\ CountCmd("execute") = 1
               /\ calls[2].outcome.kind = "completed"
               /\ calls[2].outcome.returncode = 0

C22_Witness ==
    /\ runner = "python" /\ Done /\ outcome = "returned"
    /\ result.exit_code = 0
    /\ CountCmd("run") = 1

\* C24: in run_cpp_code, once validation has passed compiler_used is the
\* requested compiler in every later state of the call, whatever the
\* compile and execute invocations do; and after validation compiler_used
\* is "none" exactly when the requested compiler is unsupported.
C24_CompilerUsedIsRequested ==
    (runner = "cpp" /\ pc # "validate")
    => /\ SupportedCompiler(args.compiler)
          => result.compiler_used = args.compiler
       /\ result.compiler_used = "none" <=> ~SupportedCompiler(args.compiler)

C24_Witness ==
    /\ runner = "cpp" /\ Done /\ outcome = "returned"
    /\ args.compiler = "clang++"
    /\ result.compiler_used = "clang++"
    /\ result.timed_out_execution

\* C25: every compile and execute invocation of run_cpp_code is made with
\* --network=none, and every run invocation of run_go_code and
\* run_python_code is made with --network=none and with --cpus and
\* --memory equal to the caller's cpu_limit and memory_limit.
C25_ContainersIsolated ==
    \A i \in 1..Len(calls) :
       /\ calls[i].cmd \in {"compile", "execute"} => calls[i].network = "none"
       /\ calls[i].cmd = "run"
          => /\ calls[i].network = "none"
             /\ calls[i].cpus = args.cpu_limit
             /\ calls[i].memory = args.memory_limit

C25_Witness ==
    /\ runner = "cpp" /\ Done
    /\ CountCmd("compile") = 1 /\ CountCmd("execute") = 1
    /\ \A i \in 1..Len(calls) : calls[i].network = "none"


\* C23: when a phase of a runner timed out, no process of that phase is
\* still running when the cleanup of the call starts or when the call has
\* completed: neither the child of the process executor nor the container
\* that child had started.
C23_NoProcessLeftAfterTimeout ==
    (pc \in {"cleanup", "finally_image", "finally_dir", "done"})
    => \A i \in 1..Len(calls) :
          (/\ calls[i].cmd \in {"compile", "execute", "run"}
           /\ calls[i].outcome.kind = "TimeoutExpired")
          => calls[i].outcome.container # "running"


BashResultKeys == {"stdout", "stderr", "exit_code", "timed_out"}

\* C26: run_bash_command with an empty string or an empty list as command
\* spawns no process and returns stdout "", stderr "Error: Empty command
\* provided.", exit_code -1 and timed_out false.
C26_EmptyCommandRejected ==
    (args.command.value = <<>> /\ pc # "split")
    => /\ Done /\ outcome = "returned"
       /\ result = [stdout |-> <<>>,
                    stderr |-> <<"Error: Empty command provided.">>,
                    exit_code |-> -1, timed_out |-> FALSE]
       /\ calls = <<>>

C26_Witness ==
    /\ Done /\ outcome = "returned"
    /\ args.command = [type |-> "list", value |-> <<>>]
    /\ result.exit_code = -1

\* C27: when the command of run_bash_command exceeded its timeout, the call
\* returns a result with what the process had written to stdout, timed_out
\* true, exit_code -1 and a stderr made of "Command timed out after
\* <timeout> seconds." followed by what the process had written to stderr,
\* and the process is not running any more; and in every result timed_out
\* true implies exit_code -1.
C27_BashTimeoutKeepsOutput ==
    Done
    => /\ (calls # <<>> /\ calls[1].expired)
          => /\ outcome = "returned"
             /\ calls[1].state # "running"
             /\ result.timed_out = TRUE
             /\ result.exit_code = -1
             /\ result.stdout = calls[1].stdout
             /\ result.stderr = TimedOutStderr(args.timeout, calls[1].stderr)
       /\ (outcome = "returned" /\ result.timed_out = TRUE)
          => result.exit_code = -1

\* C28: run_bash_command never raises: every call returns a dictionary
\* with exactly the keys stdout, stderr, exit_code and timed_out.
C28_BashNeverRaises ==
    Done => /\ outcome = "returned"
            /\ DOMAIN result = BashResultKeys


\* C29: execute_cpp hands "g++" to run_cpp_code when compiler_choice is
\* None, empty or whitespace-only and compiler_choice itself otherwise; a
\* choice run_cpp_code does not support comes back with compiler_used "none"
\* and compilation_exit_code -100; and what the tool returns is the record
\* run_cpp_code returned, unmodified.
C29_ExecuteCppCompilerChoice ==
    [][runner' = "cpp"
       => /\ pc' # "tool"
             => args'.compiler =
                    IF args'.compiler_choice \in {None, Some(""), Some(" ")}
                    THEN "g++" ELSE args'.compiler_choice[1]
          /\ (pc' = "tool_done" /\ outcome' = "returned"
              /\ args'.compiler \notin {"g++", "clang++"})
             => /\ result'.compiler_used = "none"
                /\ result'.compilation_exit_code = Some(-100)
          /\ (pc = "done" /\ pc' = "tool_done")
             => /\ result' = result
                /\ outcome' = outcome]_vars

C29_Witness ==
    /\ runner = "cpp" /\ pc = "tool_done" /\ outcome = "returned"
    /\ args.compiler_choice = Some(" g++")
    /\ args.compiler = " g++"
    /\ result.compiler_used = "none"

\* C30: execute_python_code_tool always returns a record with the keys
\* stdout, stderr, exit_code, timed_out and error: the record
\* run_python_code returned, with the same values, and when the call of
\* run_python_code raised, stdout "", a stderr beginning with "Server-side
\* error invoking python_runner", exit_code -1, timed_out false and error
\* "Server-side error.".
C30_PythonToolAlwaysReturnsRecord ==
    [][(runner' = "python" /\ pc' = "tool_done")
       => /\ outcome' = "returned"
          /\ DOMAIN result' =
                 {"stdout", "stderr", "exit_code", "timed_out", "error"}
          /\ pc = "done" => result' = result
          /\ pending' = "raise"
             => /\ result'.stdout = <<>>
                /\ result'.stderr[1] =
                       "Server-side error invoking python_runner: "
                /\ result'.exit_code = -1
                /\ result'.timed_out = FALSE
                /\ result'.error = Some(<<"Server-side error.">>)]_vars

C30_Witness ==
    /\ runner = "python" /\ pc = "tool_done" /\ outcome = "returned"
    /\ pending = "raise"
    /\ result.error = Some(<<"Server-side error.">>)
    /\ calls = <<>>

====
